---- MODULE Spec2Model ----
(***************************************************************************)
(* unlock-schedule: the interval-to-template compiler.                     *)
(*                                                                         *)
(* A timestamp is the number of minutes since local midnight of a Sunday   *)
(* (seconds are not represented; every clock rendering in the code drops   *)
(* them).  A clock string "HHMM" is the tuple of its four decimal digits,  *)
(* so "0800" is <<0, 8, 0, 0>> and string order is tuple order.            *)
(***************************************************************************)
EXTENDS Integers, Sequences, FiniteSets, TLC

VARIABLES
    intervals,      \* build_unlock_rows: the interval list handed in
    options,        \* build_unlock_rows: GenerateOptions (optimize, max_intervals, day_names)
    pc,             \* position inside build_unlock_rows and the builder it called
    builder,        \* which builder produced `rows` ("none", "naive", "optimized")
    grid,           \* optimizer: grid = build_required_grid(intervals)
    run_starts,     \* optimizer: per-day run start minutes
    run_ends,       \* optimizer: per-day run end minutes
    cands,          \* optimizer: candidate windows, sorted
    remaining,      \* optimizer: uncovered required (day, minute) cells
    chosen,         \* optimizer: selected rules <<s, e, days>>
    last_pick,      \* optimizer: what the latest loop iteration saw and selected
    rows,           \* the rows the builder returned
    outcome,        \* how build_unlock_rows ended, and what it returned
    returned        \* what a direct call of a function of intervals.py returned

vars == <<intervals, options, pc, builder, grid, run_starts, run_ends, cands,
          remaining, chosen, last_pick, rows, outcome, returned>>

-----------------------------------------------------------------------------
(* Program constants *)

MinutesPerDay == 1440
MinutesPerHour == 60
DaysPerWeek == 7
MismatchCap == 20

MERGE_TOUCHING == TRUE
MAX_INTERVALS == 8
MinutesPerTimedeltaDay == 1440

DAY_NAMES == <<"Sun", "Mon", "Tue", "Wed", "Thu", "Fri", "Sat">>

(* Bounds of the model *)

MaxDay == 1         \* intervals start on days 0..MaxDay of the week (0 = Sunday)
MaxBudget == 2      \* max_intervals ranges over 0..MaxBudget

-----------------------------------------------------------------------------
(* Small helpers *)

Min(a, b) == IF a <= b THEN a ELSE b
Max(a, b) == IF a >= b THEN a ELSE b

\* always TRUE; a loop uses it to have the state of one pass computed before
\* the next pass starts, as the code does
Computed(v) == v = v

\* the pairs of positions of a list
Pairs(seq) == (1..Len(seq)) \X (1..Len(seq))

\* Python's stable sort of a list by a key, where less holds the pairs <<j, k>>
\* of positions with the key at j smaller than the key at k: the element at k
\* stands after every element with a smaller key, and after every earlier
\* element with an equal key
StableSort(seq, less) ==
    LET rank == [k \in 1..Len(seq) |->
                    1 + Cardinality({j \in 1..Len(seq) :
                            \/ <<j, k>> \in less
                            \/ <<k, j>> \notin less /\ j < k})]
    IN [i \in 1..Len(seq) |-> seq[CHOOSE k \in 1..Len(seq) : rank[k] = i]]

Days == 0 .. (DaysPerWeek - 1)
Minutes == 0 .. (MinutesPerDay - 1)

-----------------------------------------------------------------------------
(* datetime accessors *)

date(dt) == dt \div MinutesPerDay
hour(dt) == (dt % MinutesPerDay) \div MinutesPerHour
minute(dt) == dt % MinutesPerHour
\* Python weekday(): Mon = 0 .. Sun = 6; day 0 of the time axis is a Sunday
weekday(dt) == (date(dt) + 6) % 7

Interval(start, end, sources) == [start |-> start, end |-> end, sources |-> sources]

\* "%02d%02d" of two numbers below 100
Format2x2(h, mm) == <<h \div 10, h % 10, mm \div 10, mm % 10>>

to_hhmm(dt) == Format2x2(hour(dt), minute(dt))

hms_day_index(dt) == (weekday(dt) + 1) % 7

min_to_hhmm(m) ==
    IF m = 1440 THEN <<0, 0, 0, 0>>
    ELSE Format2x2(m \div 60, m % 60)

\* lexicographic order on two clock strings
StrLess(a, b) ==
    \E i \in 1..4 : a[i] < b[i] /\ \A j \in 1..(i-1) : a[j] = b[j]

\* order on (Start, End) sort keys
KeyLess(k1, k2) ==
    StrLess(k1[1], k2[1]) \/ (k1[1] = k2[1] /\ StrLess(k1[2], k2[2]))

-----------------------------------------------------------------------------
(* intervals.py *)

RECURSIVE SplitLoop(_, _, _)
SplitLoop(cur_start, cur_end, sources) ==
    IF date(cur_start) < date(cur_end)
    THEN LET next_midnight == (date(cur_start) + 1) * MinutesPerDay
         IN <<Interval(cur_start, next_midnight, sources)>>
            \o SplitLoop(next_midnight, cur_end, sources)
    ELSE <<Interval(cur_start, cur_end, sources)>>

\* variant: the interval is returned whole
split_interval_by_day_Unsplit(iv) == <<Interval(iv.start, iv.end, iv.sources)>>

split_interval_by_day(iv) == SplitLoop(iv.start, iv.end, iv.sources)

\* every day segment of every interval, in the order the builders visit them
RECURSIVE AllSegments(_)
AllSegments(ivs) ==
    IF ivs = <<>> THEN <<>>
    ELSE IF Len(ivs) = 1 THEN split_interval_by_day(ivs[1])
    ELSE AllSegments(SubSeq(ivs, 1, Len(ivs) \div 2))
         \o AllSegments(SubSeq(ivs, Len(ivs) \div 2 + 1, Len(ivs)))

Range(f) == {f[i] : i \in DOMAIN f}

\* order of the sort key (x.start, x.end)
IntervalKeyLess(a, b) == a.start < b.start \/ (a.start = b.start /\ a.end < b.end)

\* sorted(intervals, key=lambda x: (x.start, x.end))
SortIntervals(ivs) ==
    StableSort(ivs, {p \in Pairs(ivs) : IntervalKeyLess(ivs[p[1]], ivs[p[2]])})

\* tuple(dict.fromkeys(names)): each name once, in the order first seen
RECURSIVE Dedup(_)
Dedup(names) ==
    IF names = <<>> THEN <<>>
    ELSE IF names[Len(names)] \in Range(SubSeq(names, 1, Len(names) - 1))
    THEN Dedup(SubSeq(names, 1, Len(names) - 1))
    ELSE Append(Dedup(SubSeq(names, 1, Len(names) - 1)), names[Len(names)])

\* variant: touching intervals are absorbed in both modes
MergeStep_AlwaysTouching(st, nxt, merge_touching) ==
    IF nxt.start <= st.cur.end
    THEN [merged |-> st.merged,
          cur    |-> Interval(st.cur.start, Max(st.cur.end, nxt.end),
                              Dedup(st.cur.sources \o nxt.sources))]
    ELSE [merged |-> Append(st.merged, st.cur), cur |-> nxt]

\* variant: an absorbed interval does not move the end of the current one
MergeStep_KeepsEnd(st, nxt, merge_touching) ==
    IF (IF merge_touching THEN nxt.start <= st.cur.end ELSE nxt.start < st.cur.end)
    THEN [merged |-> st.merged,
          cur    |-> Interval(st.cur.start, st.cur.end,
                              Dedup(st.cur.sources \o nxt.sources))]
    ELSE [merged |-> Append(st.merged, st.cur), cur |-> nxt]

\* lines 17-24: the body of the loop of merge_intervals, on (merged, cur)
MergeStep(st, nxt, merge_touching) ==
    IF (IF merge_touching THEN nxt.start <= st.cur.end ELSE nxt.start < st.cur.end)
    THEN [merged |-> st.merged,
          cur    |-> Interval(st.cur.start, Max(st.cur.end, nxt.end),
                              Dedup(st.cur.sources \o nxt.sources))]
    ELSE [merged |-> Append(st.merged, st.cur), cur |-> nxt]

\* the loop over the sorted intervals after the first: those of the first half
\* of the list, in order, then those of the second half
RECURSIVE MergeLoop(_, _, _)
MergeLoop(st, rest, merge_touching) ==
    IF rest = <<>> THEN st
    ELSE IF Len(rest) = 1 THEN MergeStep(st, rest[1], merge_touching)
    ELSE LET st1 == MergeLoop(st, SubSeq(rest, 1, Len(rest) \div 2), merge_touching)
         IN IF Computed(st1)
            THEN MergeLoop(st1, SubSeq(rest, Len(rest) \div 2 + 1, Len(rest)), merge_touching)
            ELSE st1

\* variant: the last accumulator is not appended
MergeEnd_Forgotten(st) == st.merged

\* line 25: the last accumulator is appended
MergeEnd(st) == Append(st.merged, st.cur)

\* lines 13-26: from the sorted list
MergeSorted(sorted, merge_touching) ==
    MergeEnd(MergeLoop([merged |-> <<>>, cur |-> Head(sorted)], Tail(sorted), merge_touching))

merge_intervals(ivs, merge_touching) ==
    IF ivs = <<>> THEN <<>>
    ELSE MergeSorted(SortIntervals(ivs), merge_touching)

apply_padding(interval, before_min, after_min) ==
    Interval(interval.start - before_min, interval.end + after_min, interval.sources)

-----------------------------------------------------------------------------
(* verify.py: the grid builder *)

_interval_minutes(iv) ==
    <<hour(iv.start) * 60 + minute(iv.start), hour(iv.end) * 60 + minute(iv.end)>>

EmptyGrid == [d \in Days |-> [m \in Minutes |-> FALSE]]

\* variant: a segment end at midnight is read as minute 0 of its own day
MarkSegment_MidnightAsZero(g, seg) ==
    LET d  == hms_day_index(seg.start)
        sm == _interval_minutes(seg)
        s  == Max(0, Min(1440, sm[1]))
        e  == Max(0, Min(1440, sm[2]))
    IN IF e <= s THEN g
       ELSE [g EXCEPT ![d] = [m \in Minutes |-> (m >= s /\ m < e /\ m < 1440) \/ @[m]]]

\* one pass of the body of the segment loop of build_required_grid
MarkSegment(g, seg) ==
    LET d  == hms_day_index(seg.start)
        sm == _interval_minutes(seg)
        e0 == IF hour(seg.end) = 0 /\ minute(seg.end) = 0 /\ date(seg.end) # date(seg.start)
              THEN 1440 ELSE sm[2]
        s  == Max(0, Min(1440, sm[1]))
        e  == Max(0, Min(1440, e0))
    IN IF e <= s THEN g
       ELSE [g EXCEPT ![d] = [m \in Minutes |-> (m >= s /\ m < e /\ m < 1440) \/ @[m]]]

RECURSIVE MarkSegments(_, _)
MarkSegments(g, segs) ==
    IF segs = <<>> THEN g
    ELSE IF Len(segs) = 1 THEN MarkSegment(g, segs[1])
    ELSE LET g1 == MarkSegments(g, SubSeq(segs, 1, Len(segs) \div 2))
         IN IF Computed(g1)
            THEN MarkSegments(g1, SubSeq(segs, Len(segs) \div 2 + 1, Len(segs)))
            ELSE g1

build_required_grid(ivs) == MarkSegments(EmptyGrid, AllSegments(ivs))

-----------------------------------------------------------------------------
(* template.py: the naive builder *)

\* the dict {d: 0 for d in day_names} with "Holidays": 0 added
NoDays(day_names) == [n \in Range(day_names) \cup {"Holidays"} |-> 0]

\* the body of the segment loop of build_weekly_template
GroupSegment(grouped, seg, day_names) ==
    LET start_h == to_hhmm(seg.start)
        end_h   == to_hhmm(seg.end)
        key     == <<start_h, end_h>>
        g1      == IF key \in DOMAIN grouped THEN grouped
                   ELSE [k \in DOMAIN grouped \cup {key} |->
                            IF k = key THEN NoDays(day_names) ELSE grouped[k]]
        day_idx == hms_day_index(seg.start)
    IN IF start_h = end_h THEN grouped
       ELSE [g1 EXCEPT ![key][day_names[day_idx + 1]] = 1]

RECURSIVE GroupSegments(_, _, _)
GroupSegments(grouped, segs, day_names) ==
    IF segs = <<>> THEN grouped
    ELSE IF Len(segs) = 1 THEN GroupSegment(grouped, segs[1], day_names)
    ELSE LET g1 == GroupSegments(grouped, SubSeq(segs, 1, Len(segs) \div 2), day_names)
         IN IF Computed(g1)
            THEN GroupSegments(g1, SubSeq(segs, Len(segs) \div 2 + 1, Len(segs)), day_names)
            ELSE g1

\* sorted(keys, key=lambda k: (k[0], k[1])) of a set of distinct keys
RECURSIVE SortKeys(_)
SortKeys(S) ==
    IF S = {} THEN <<>>
    ELSE LET least == CHOOSE k \in S : \A o \in S \ {k} : KeyLess(k, o)
         IN <<least>> \o SortKeys(S \ {least})

\* a row built from a group
GroupRow(i, k, flags, day_names) ==
    [f \in {"Interval", "Start", "End", "Holidays"} \cup Range(day_names) |->
        CASE f = "Interval" -> i
          [] f = "Start"    -> k[1]
          [] f = "End"      -> k[2]
          [] OTHER          -> flags[f]]

\* the row appended by the padding loop
PaddingRow(idx, day_names) ==
    [f \in {"Interval", "Start", "End", "Holidays"} \cup Range(day_names) |->
        CASE f = "Interval" -> idx
          [] f = "Start"    -> <<0, 0, 0, 0>>
          [] f = "End"      -> <<0, 0, 0, 0>>
          [] OTHER          -> 0]

RECURSIVE PadRowsNaive(_, _, _)
PadRowsNaive(rs, day_names, max_intervals) ==
    IF Len(rs) < max_intervals
    THEN PadRowsNaive(Append(rs, PaddingRow(Len(rs) + 1, day_names)), day_names, max_intervals)
    ELSE rs

\* result of a call: either rows, or the exception that ended it
Returned(rs) == [raised |-> "", rows |-> rs]
Raised(what) == [raised |-> what, rows |-> <<>>]

\* variant: the comparison is off by one
TooManyWindows_OffByOne(keys_sorted, max_intervals) == Len(keys_sorted) > max_intervals + 1

\* line 48: more distinct windows than the budget
TooManyWindows(keys_sorted, max_intervals) == Len(keys_sorted) > max_intervals

\* lines 48-81: from the sorted keys to the result
RowsFromGroups(grouped, keys_sorted, day_names, max_intervals) ==
    IF TooManyWindows(keys_sorted, max_intervals) THEN Raised("capacity")
    ELSE Returned(PadRowsNaive(
            [i \in 1..Len(keys_sorted) |->
                GroupRow(i, keys_sorted[i], grouped[keys_sorted[i]], day_names)],
            day_names, max_intervals))

\* lines 46-81: from the groups the segment loop left
TemplateFromGroups(grouped, day_names, max_intervals) ==
    RowsFromGroups(grouped, SortKeys(DOMAIN grouped), day_names, max_intervals)

build_weekly_template(ivs, day_names, max_intervals) ==
    IF Len(day_names) # 7 THEN Raised("ValueError")
    ELSE TemplateFromGroups(GroupSegments(<<>>, AllSegments(ivs), day_names),
                            day_names, max_intervals)

-----------------------------------------------------------------------------
(* verify.py: the verifier *)

day_enabled(r, d) ==
    \/ (d = 0 /\ r.Sun # 0)
    \/ (d = 1 /\ r.Mon # 0)
    \/ (d = 2 /\ r.Tue # 0)
    \/ (d = 3 /\ r.Wed # 0)
    \/ (d = 4 /\ r.Thu # 0)
    \/ (d = 5 /\ r.Fri # 0)
    \/ (d = 6 /\ r.Sat # 0)

\* int(hhmm[:2]) * 60 + int(hhmm[2:])
hhmm_to_min(hhmm) ==
    LET h == hhmm[1] * 10 + hhmm[2]
        m == hhmm[3] * 10 + hhmm[4]
    IN h * 60 + m

\* the body of the row loop of verify_rows_match_required
SimulateRow(sim, r) ==
    LET s     == r.Start
        e     == r.End
        start == hhmm_to_min(s)
        end0  == hhmm_to_min(e)
        end   == IF end0 = 0 THEN 1440 ELSE end0
    IN IF s = <<0, 0, 0, 0>> /\ e = <<0, 0, 0, 0>> THEN sim
       ELSE [d \in Days |->
                IF ~day_enabled(r, d) THEN sim[d]
                ELSE [m \in Minutes |-> (m >= start /\ m < Min(end, 1440)) \/ sim[d][m]]]

RECURSIVE SimulateRows(_, _)
SimulateRows(sim, rs) ==
    IF rs = <<>> THEN sim
    ELSE LET sim1 == SimulateRow(sim, Head(rs))
         IN IF Computed(sim1) THEN SimulateRows(sim1, Tail(rs)) ELSE sim1

\* the simulated grid the verifier builds from the rows
SimulatedGrid(rs) == SimulateRows(EmptyGrid, rs)

\* (d1, m1) is scanned before (d2, m2)
ScannedBefore(c1, c2) == c1[1] < c2[1] \/ (c1[1] = c2[1] /\ c1[2] < c2[2])

\* the first `cap` cells of M in scan order, as (d, m, required, simulated)
RECURSIVE FirstMismatches(_, _, _, _)
FirstMismatches(M, cap, sim, required) ==
    IF M = {} \/ cap = 0 THEN <<>>
    ELSE LET c == CHOOSE x \in M : \A o \in M : o = x \/ ScannedBefore(x, o)
         IN <<<<c[1], c[2], required[c[1]][c[2]], sim[c[1]][c[2]]>>>>
            \o FirstMismatches(M \ {c}, cap - 1, sim, required)

\* variant: only cells that are required but not simulated are noticed
CollectMismatches_UnderOpenOnly(sim, required) ==
    LET M == {c \in Days \X Minutes : required[c[1]][c[2]] /\ ~sim[c[1]][c[2]]}
    IN FirstMismatches(M, MismatchCap, sim, required)

\* variant: only cells that are simulated but not required are noticed
CollectMismatches_OverOpenOnly(sim, required) ==
    LET M == {c \in Days \X Minutes : sim[c[1]][c[2]] /\ ~required[c[1]][c[2]]}
    IN FirstMismatches(M, MismatchCap, sim, required)

\* the mismatch list collected by the comparison loop (it stops at MismatchCap)
CollectMismatches(sim, required) ==
    LET M == {c \in Days \X Minutes : sim[c[1]][c[2]] # required[c[1]][c[2]]}
    IN FirstMismatches(M, MismatchCap, sim, required)

\* TRUE iff verify_rows_match_required(rows, required) raises SystemExit(2)
verify_rows_match_required(rs, required) ==
    CollectMismatches(SimulatedGrid(rs), required) # <<>>

-----------------------------------------------------------------------------
(* optimize.py: run boundaries and candidates *)

\* the body of the minute loop of _run_boundary_sets for one day's row
RunStep(row, st, m) ==
    LET opens  == row[m] /\ ~st.in_run
        in_run == IF opens THEN TRUE ELSE st.in_run
        start  == IF opens THEN m ELSE st.start
        closes == in_run /\ (m = 1439 \/ ~row[m + 1])
    IN [in_run |-> IF closes THEN FALSE ELSE in_run,
        start  |-> start,
        starts |-> IF closes THEN st.starts \cup {start} ELSE st.starts,
        ends   |-> IF closes THEN st.ends \cup {m + 1} ELSE st.ends]

\* the minute loop run for m = lo .. hi-1 from loop state st: the first half
\* of the range, then the second half from the state the first one left.
\* A pass leaves the loop state as it is (RunStep returns st) outside a run
\* at a minute that is not required, and inside a run at a minute whose
\* successor is required; so does a stretch of such minutes.
RECURSIVE RunScan(_, _, _, _)
RunScan(row, lo, hi, st) ==
    IF hi <= lo THEN st
    ELSE IF ~st.in_run /\ \A m \in lo .. (hi - 1) : ~row[m] THEN st
    ELSE IF st.in_run /\ \A m \in lo .. (hi - 1) : m # 1439 /\ row[m + 1] THEN st
    ELSE IF hi = lo + 1 THEN RunStep(row, st, lo)
    ELSE LET mid  == (lo + hi) \div 2
             left == RunScan(row, lo, mid, st)
         IN IF Computed(left) THEN RunScan(row, mid, hi, left) ELSE left

\* returns the pair (run_starts, run_ends) as a record
_run_boundary_sets(g) ==
    LET scan == [d \in Days |->
                    RunScan(g[d], 0, 1440,
                            [in_run |-> FALSE, start |-> 0, starts |-> {}, ends |-> {}])]
    IN IF Computed(scan)
       THEN [run_starts |-> [d \in Days |-> scan[d].starts],
             run_ends   |-> [d \in Days |-> scan[d].ends]]
       ELSE scan

\* variant: a run that closes adds its start only, not its end
BoundaryStep_StartsOnly(row, st, m) ==
    LET opens     == row[m] /\ ~st.in_run
        in_run    == IF opens THEN TRUE ELSE st.in_run
        run_start == IF opens THEN m ELSE st.run_start
        closes    == in_run /\ (m = 1439 \/ ~row[m + 1])
    IN [in_run     |-> IF closes THEN FALSE ELSE in_run,
        run_start  |-> run_start,
        boundaries |-> IF closes THEN st.boundaries \cup {run_start}
                       ELSE st.boundaries]

\* the body of the minute loop of extract_boundaries_from_grid
BoundaryStep(row, st, m) ==
    LET opens     == row[m] /\ ~st.in_run
        in_run    == IF opens THEN TRUE ELSE st.in_run
        run_start == IF opens THEN m ELSE st.run_start
        closes    == in_run /\ (m = 1439 \/ ~row[m + 1])
    IN [in_run     |-> IF closes THEN FALSE ELSE in_run,
        run_start  |-> run_start,
        boundaries |-> IF closes THEN st.boundaries \cup {run_start, m + 1}
                       ELSE st.boundaries]

\* the minute loop for m = lo .. hi-1, split and shortened as in RunScan
RECURSIVE BoundaryScan(_, _, _, _)
BoundaryScan(row, lo, hi, st) ==
    IF hi <= lo THEN st
    ELSE IF ~st.in_run /\ \A m \in lo .. (hi - 1) : ~row[m] THEN st
    ELSE IF st.in_run /\ \A m \in lo .. (hi - 1) : m # 1439 /\ row[m + 1] THEN st
    ELSE IF hi = lo + 1 THEN BoundaryStep(row, st, lo)
    ELSE LET mid  == (lo + hi) \div 2
             left == BoundaryScan(row, lo, mid, st)
         IN IF Computed(left) THEN BoundaryScan(row, mid, hi, left) ELSE left

\* the day loop of extract_boundaries_from_grid, from day d on
RECURSIVE BoundaryDays(_, _, _)
BoundaryDays(g, d, boundaries) ==
    IF d >= 7 THEN boundaries
    ELSE LET after == BoundaryScan(g[d], 0, 1440,
                        [in_run |-> FALSE, run_start |-> 0, boundaries |-> boundaries]).boundaries
         IN IF Computed(after) THEN BoundaryDays(g, d + 1, after) ELSE after

\* sorted(set of integers)
RECURSIVE SortInts(_)
SortInts(S) ==
    IF S = {} THEN <<>>
    ELSE LET least == CHOOSE x \in S : \A o \in S : x <= o
         IN <<least>> \o SortInts(S \ {least})

\* variant: the boundaries start from the empty set
extract_boundaries_from_grid_RunsOnly(g) == SortInts(BoundaryDays(g, 0, {}))

extract_boundaries_from_grid(g) == SortInts(BoundaryDays(g, 0, {0, 1440}))

\* variant: only the next boundary is paired with boundary i
CandInner_NextOnly(boundaries, i, j) ==
    IF j > Len(boundaries) THEN <<>>
    ELSE IF boundaries[j] > boundaries[i] THEN <<<<boundaries[i], boundaries[j]>>>>
    ELSE <<>>

\* the inner loop of candidate_intervals: j from j0 to n-1 (indices from 1 here)
RECURSIVE CandInner(_, _, _)
CandInner(boundaries, i, j) ==
    IF j > Len(boundaries) THEN <<>>
    ELSE (IF boundaries[j] > boundaries[i] THEN <<<<boundaries[i], boundaries[j]>>>> ELSE <<>>)
         \o CandInner(boundaries, i, j + 1)

RECURSIVE CandOuter(_, _)
CandOuter(boundaries, i) ==
    IF i > Len(boundaries) THEN <<>>
    ELSE CandInner(boundaries, i, i + 1) \o CandOuter(boundaries, i + 1)

\* tuples of integers of equal length, compared as Python compares them
RECURSIVE TupleLess(_, _)
TupleLess(a, b) ==
    IF a = <<>> THEN FALSE
    ELSE Head(a) < Head(b) \/ (Head(a) = Head(b) /\ TupleLess(Tail(a), Tail(b)))

CandKey(x) == <<-(x[2] - x[1]), x[1], x[2]>>

CandLess(x, y) == TupleLess(CandKey(x), CandKey(y))

\* line 71: candidates.sort(key=...)
SortCands(cs) == StableSort(cs, {p \in Pairs(cs) : CandLess(cs[p[1]], cs[p[2]])})

candidate_intervals(boundaries) == SortCands(CandOuter(boundaries, 1))

-----------------------------------------------------------------------------
(* optimize.py: the greedy cover *)

\* the cells put into `remaining` before the loop
RequiredCells(g) == {c \in Days \X Minutes : g[c[1]][c[2]]}

\* variant: only the first minute of the window is looked at
day_is_fully_covered_FirstMinute(g, d, s, e) == g[d][s]

day_is_fully_covered(g, d, s, e) ==
    LET upper == Min(e, 1440)
    IN \A m \in s .. (upper - 1) : g[d][m]

\* variant: the cover is not restricted to the eligible days
EvalCandidate_AnyDay(g, rem, rs, re, s, e) ==
    LET eligible_days     == {d \in Days : day_is_fully_covered(g, d, s, e)}
        upper             == Min(e, 1440)
        cover             == {c \in Days \X (s .. (upper - 1)) : c \in rem}
        contributing_days == {c[1] : c \in cover}
        alignment         == Cardinality({d \in contributing_days : s \in rs[d]})
                             + Cardinality({d \in contributing_days : e \in re[d]})
    IN [eligible_days |-> eligible_days, cover |-> cover,
        contributing_days |-> contributing_days, alignment |-> alignment]

\* what one pass of the candidate loop computes for the window (s, e)
EvalCandidate(g, rem, rs, re, s, e) ==
    LET eligible_days     == {d \in Days : day_is_fully_covered(g, d, s, e)}
        upper             == Min(e, 1440)
        cover             == {c \in eligible_days \X (s .. (upper - 1)) : c \in rem}
        contributing_days == {c[1] : c \in cover}
        alignment         == Cardinality({d \in contributing_days : s \in rs[d]})
                             + Cardinality({d \in contributing_days : e \in re[d]})
    IN [eligible_days |-> eligible_days, cover |-> cover,
        contributing_days |-> contributing_days, alignment |-> alignment]

\* best_s and best_e are None (<<>>) or a number (<<n>>)
NoBest ==
    [best_s |-> <<>>, best_e |-> <<>>, best_days |-> {}, best_cover |-> {},
     best_alignment |-> -1]

\* variant: the rule gets every eligible day
Taken_EligibleDays(s, e, ev) ==
    [best_s |-> <<s>>, best_e |-> <<e>>, best_days |-> ev.eligible_days,
     best_cover |-> ev.cover, best_alignment |-> ev.alignment]

\* lines 155-168: the candidate (s, e), evaluated as ev, replaces the best so far
Taken(s, e, ev) ==
    [best_s |-> <<s>>, best_e |-> <<e>>, best_days |-> ev.contributing_days,
     best_cover |-> ev.cover, best_alignment |-> ev.alignment]

\* variant: the first candidate that covers something is kept
KeepOrTake_FirstFound(best, s, e, ev) ==
    IF e <= s THEN best
    ELSE IF ev.eligible_days = {} THEN best
    ELSE IF ev.cover = {} THEN best
    ELSE IF best.best_s = <<>> THEN Taken(s, e, ev)
    ELSE best

\* variant: the score starts with the number of newly covered cells
KeepOrTake_CoverFirst(best, s, e, ev) ==
    IF e <= s THEN best
    ELSE IF ev.eligible_days = {} THEN best
    ELSE IF ev.cover = {} THEN best
    ELSE IF best.best_s = <<>> THEN Taken(s, e, ev)
    ELSE IF TupleLess(<<Cardinality(best.best_cover), best.best_alignment,
                        best.best_e[1] - best.best_s[1], -best.best_s[1]>>,
                      <<Cardinality(ev.cover), ev.alignment, e - s, -s>>)
    THEN Taken(s, e, ev)
    ELSE best

\* variant: among equal alignments the candidate with fewer new cells wins
KeepOrTake_FewestCells(best, s, e, ev) ==
    IF e <= s THEN best
    ELSE IF ev.eligible_days = {} THEN best
    ELSE IF ev.cover = {} THEN best
    ELSE IF best.best_s = <<>> THEN Taken(s, e, ev)
    ELSE IF TupleLess(<<best.best_alignment, -Cardinality(best.best_cover),
                        best.best_e[1] - best.best_s[1], -best.best_s[1]>>,
                      <<ev.alignment, -Cardinality(ev.cover), e - s, -s>>)
    THEN Taken(s, e, ev)
    ELSE best

\* variant: the score is (alignment, newly covered cells) alone
KeepOrTake_AlignmentAndCells(best, s, e, ev) ==
    IF e <= s THEN best
    ELSE IF ev.eligible_days = {} THEN best
    ELSE IF ev.cover = {} THEN best
    ELSE IF best.best_s = <<>> THEN Taken(s, e, ev)
    ELSE IF TupleLess(<<best.best_alignment, Cardinality(best.best_cover)>>,
                      <<ev.alignment, Cardinality(ev.cover)>>)
    THEN Taken(s, e, ev)
    ELSE best

\* lines 129-168: the best so far after the candidate (s, e), evaluated as ev
KeepOrTake(best, s, e, ev) ==
    IF e <= s THEN best
    ELSE IF ev.eligible_days = {} THEN best
    ELSE IF ev.cover = {} THEN best
    ELSE IF best.best_s = <<>> THEN Taken(s, e, ev)
    ELSE IF TupleLess(<<best.best_alignment, Cardinality(best.best_cover),
                        best.best_e[1] - best.best_s[1], -best.best_s[1]>>,
                      <<ev.alignment, Cardinality(ev.cover), e - s, -s>>)
    THEN Taken(s, e, ev)
    ELSE best

\* the body of the candidate loop: the best so far after looking at cand
ConsiderCandidate(best, cand, g, rem, rs, re) ==
    KeepOrTake(best, cand[1], cand[2], EvalCandidate(g, rem, rs, re, cand[1], cand[2]))

\* the candidate loop: the candidates of the first half of the list, in order,
\* then those of the second half
RECURSIVE CandidateLoop(_, _, _, _, _, _)
CandidateLoop(best, cs, g, rem, rs, re) ==
    IF cs = <<>> THEN best
    ELSE IF Len(cs) = 1 THEN ConsiderCandidate(best, cs[1], g, rem, rs, re)
    ELSE LET best1 == CandidateLoop(best, SubSeq(cs, 1, Len(cs) \div 2), g, rem, rs, re)
         IN IF Computed(best1)
            THEN CandidateLoop(best1, SubSeq(cs, Len(cs) \div 2 + 1, Len(cs)), g, rem, rs, re)
            ELSE best1

\* variant: the comparison is off by one
TooManyRules_OffByOne(ch, max_intervals) == Len(ch) > max_intervals + 1

\* line 179: more rules chosen than the budget
TooManyRules(ch, max_intervals) == Len(ch) > max_intervals

\* variant: the cells of the selected candidate stay in `remaining`
SelectBest_NothingRemoved(best, rem, ch, max_intervals) ==
    IF best.best_s = <<>> \/ best.best_e = <<>>
    THEN [raised |-> "no safe interval", chosen |-> ch, remaining |-> rem, best |-> best]
    ELSE [raised    |-> IF TooManyRules(Append(ch, <<best.best_s[1], best.best_e[1],
                                                    best.best_days>>), max_intervals)
                        THEN "capacity" ELSE "",
          chosen    |-> Append(ch, <<best.best_s[1], best.best_e[1], best.best_days>>),
          remaining |-> rem,
          best      |-> best]

\* lines 170-183: what the loop does with the best candidate of one iteration
SelectBest(best, rem, ch, max_intervals) ==
    IF best.best_s = <<>> \/ best.best_e = <<>>
    THEN [raised |-> "no safe interval", chosen |-> ch, remaining |-> rem, best |-> best]
    ELSE [raised    |-> IF TooManyRules(Append(ch, <<best.best_s[1], best.best_e[1],
                                                    best.best_days>>), max_intervals)
                        THEN "capacity" ELSE "",
          chosen    |-> Append(ch, <<best.best_s[1], best.best_e[1], best.best_days>>),
          remaining |-> rem \ best.best_cover,
          best      |-> best]

\* lines 122-183: one iteration of the greedy loop, from the loop's variables
GreedyStep(g, rem, rs, re, cs, ch, max_intervals) ==
    SelectBest(CandidateLoop(NoBest, cs, g, rem, rs, re), rem, ch, max_intervals)

\* the greedy loop run to its end
RECURSIVE GreedyLoop(_, _, _, _, _, _, _)
RECURSIVE GreedyNext(_, _, _, _, _, _)

\* after an iteration that left `step`: stop on an exception, else loop
GreedyNext(step, g, rs, re, cs, max_intervals) ==
    IF step.raised # "" THEN step
    ELSE GreedyLoop(g, step.remaining, rs, re, cs, step.chosen, max_intervals)

GreedyLoop(g, rem, rs, re, cs, ch, max_intervals) ==
    IF rem = {} THEN [raised |-> "", chosen |-> ch, remaining |-> rem]
    ELSE GreedyNext(GreedyStep(g, rem, rs, re, cs, ch, max_intervals),
                    g, rs, re, cs, max_intervals)

\* the row rendered for a chosen rule
RuleRow(idx, rule) ==
    LET s == rule[1]
        e == rule[2]
        days_on == rule[3]
    IN [Interval |-> idx, Start |-> min_to_hhmm(s), End |-> min_to_hhmm(e),
        Sun |-> IF 0 \in days_on THEN 1 ELSE 0,
        Mon |-> IF 1 \in days_on THEN 1 ELSE 0,
        Tue |-> IF 2 \in days_on THEN 1 ELSE 0,
        Wed |-> IF 3 \in days_on THEN 1 ELSE 0,
        Thu |-> IF 4 \in days_on THEN 1 ELSE 0,
        Fri |-> IF 5 \in days_on THEN 1 ELSE 0,
        Sat |-> IF 6 \in days_on THEN 1 ELSE 0,
        Holidays |-> 0]

\* the all-zero row of the optimizer
ZeroRow(idx) ==
    [Interval |-> idx, Start |-> <<0, 0, 0, 0>>, End |-> <<0, 0, 0, 0>>,
     Sun |-> 0, Mon |-> 0, Tue |-> 0, Wed |-> 0, Thu |-> 0, Fri |-> 0, Sat |-> 0,
     Holidays |-> 0]

RowKey(r) == <<r.Start, r.End>>

\* stable insertion of r into a list sorted by (Start, End)
RECURSIVE InsertRow(_, _)
InsertRow(sorted, r) ==
    IF sorted = <<>> THEN <<r>>
    ELSE IF KeyLess(RowKey(r), RowKey(Head(sorted))) THEN <<r>> \o sorted
    ELSE <<Head(sorted)>> \o InsertRow(Tail(sorted), r)

\* variant: the rows stay in the order the rules were chosen
SortRows_AsChosen(rs) == rs

RECURSIVE SortRows(_)
SortRows(rs) ==
    IF rs = <<>> THEN <<>>
    ELSE InsertRow(SortRows(SubSeq(rs, 1, Len(rs) - 1)), rs[Len(rs)])

\* variant: the padding loop runs once more
RECURSIVE PadRowsOptimized_OneMore(_, _)
PadRowsOptimized_OneMore(rs, max_intervals) ==
    IF Len(rs) <= max_intervals
    THEN PadRowsOptimized_OneMore(Append(rs, ZeroRow(Len(rs) + 1)), max_intervals)
    ELSE rs

RECURSIVE PadRowsOptimized(_, _)
PadRowsOptimized(rs, max_intervals) ==
    IF Len(rs) < max_intervals
    THEN PadRowsOptimized(Append(rs, ZeroRow(Len(rs) + 1)), max_intervals)
    ELSE rs

\* lines 185-226: the rows returned for the chosen rules
\* lines 204-205: the rows numbered in list order
Reindex(rows_sorted) ==
    [i \in 1..Len(rows_sorted) |-> [rows_sorted[i] EXCEPT !.Interval = i]]

RenderChosen(ch, max_intervals) ==
    PadRowsOptimized(Reindex(SortRows([i \in 1..Len(ch) |-> RuleRow(i, ch[i])])),
                     max_intervals)

\* lines 92-108: the rows returned for an empty grid
EmptyGridRows(max_intervals) == [i \in 1..max_intervals |-> ZeroRow(i)]

\* the optimizer as one call
\* lines 185-226: the result once the greedy loop ended as `loop`
ResultOfLoop(loop, max_intervals) ==
    IF loop.raised # "" THEN Raised(loop.raised)
    ELSE Returned(RenderChosen(loop.chosen, max_intervals))

\* lines 92-226: from the grid, its run boundary sets and its required cells
OptimizedFromGrid(g, runs, rem, max_intervals) ==
    IF rem = {} THEN Returned(EmptyGridRows(max_intervals))
    ELSE ResultOfLoop(GreedyLoop(g, rem, runs.run_starts, runs.run_ends,
                                 candidate_intervals(extract_boundaries_from_grid(g)),
                                 <<>>, max_intervals),
                      max_intervals)

\* lines 84-226: from the grid
OptimizedFromRequired(g, max_intervals) ==
    OptimizedFromGrid(g, _run_boundary_sets(g), RequiredCells(g), max_intervals)

\* the optimizer as one call
build_weekly_template_optimized(ivs, max_intervals) ==
    OptimizedFromRequired(build_required_grid(ivs), max_intervals)

-----------------------------------------------------------------------------
(* Inputs: on each of the days 0..MaxDay at most one interval starts, with  *)
(* its start and end clock taken from Windows (minutes from that day's     *)
(* midnight; an end of 1440 is the next midnight, beyond it the next day). *)
(* The list is in start order, as prepare_intervals returns it.            *)

Windows == << <<480, 720>>, <<480, 1440>>, <<0, 1440>>, <<720, 1920>> >>

RECURSIVE IntervalsFrom(_, _)
IntervalsFrom(picks, d) ==
    IF d > MaxDay THEN <<>>
    ELSE (IF picks[d] = 0 THEN <<>>
          ELSE <<Interval(d * MinutesPerDay + Windows[picks[d]][1],
                          d * MinutesPerDay + Windows[picks[d]][2],
                          <<DAY_NAMES[d + 1]>>)>>)
         \o IntervalsFrom(picks, d + 1)

InputLists == {IntervalsFrom(picks, 0) : picks \in [0..MaxDay -> 0..Len(Windows)]}

Running == [status |-> "running", error |-> "", rows |-> <<>>]

-----------------------------------------------------------------------------
(* service.py: build_unlock_rows, step by step *)

Init ==
    /\ intervals \in InputLists
    /\ options \in [optimize : BOOLEAN, max_intervals : 0..MaxBudget, day_names : {DAY_NAMES}]
    /\ pc = "entry"
    /\ builder = "none"
    /\ grid = EmptyGrid
    /\ run_starts = [d \in Days |-> {}]
    /\ run_ends = [d \in Days |-> {}]
    /\ cands = <<>>
    /\ remaining = {}
    /\ chosen = <<>>
    /\ last_pick = NoBest
    /\ rows = <<>>
    /\ outcome = Running
    /\ returned = <<>>

OptimizerVars == <<grid, run_starts, run_ends, cands, remaining, chosen, last_pick>>

\* lines 159-165: the naive builder is called; its SystemExit is not caught
CallNaive ==
    /\ pc = "entry"
    /\ ~options.optimize
    /\ \E res \in {build_weekly_template(intervals, options.day_names,
                                         options.max_intervals)} :
          IF res.raised # ""
          THEN /\ pc' = "done"
               /\ outcome' = [status |-> "raised", error |-> res.raised, rows |-> <<>>]
               /\ UNCHANGED <<rows, builder>>
          ELSE IF Len(res.rows) > options.max_intervals
          THEN /\ pc' = "optimize"
               /\ rows' = res.rows
               /\ builder' = "naive"
               /\ UNCHANGED outcome
          ELSE /\ pc' = "verify"
               /\ rows' = res.rows
               /\ builder' = "naive"
               /\ UNCHANGED outcome
    /\ UNCHANGED <<intervals, options, OptimizerVars, returned>>

\* optimize.py lines 83-111: the optimizer is entered
EnterOptimized ==
    /\ \/ pc = "optimize"
       \/ pc = "entry" /\ options.optimize
    /\ \E g \in {build_required_grid(intervals)} :
       \E runs \in {_run_boundary_sets(g)} :
       \E rem \in {RequiredCells(g)} :
          /\ grid' = g
          /\ run_starts' = runs.run_starts
          /\ run_ends' = runs.run_ends
          /\ remaining' = rem
          /\ IF rem = {}
             THEN /\ rows' = EmptyGridRows(options.max_intervals)
                  /\ builder' = "optimized"
                  /\ cands' = <<>>
                  /\ pc' = "verify"
             ELSE /\ cands' = candidate_intervals(extract_boundaries_from_grid(g))
                  /\ pc' = "greedy"
                  /\ UNCHANGED <<rows, builder>>
    /\ chosen' = <<>>
    /\ UNCHANGED <<intervals, options, last_pick, outcome, returned>>

\* optimize.py lines 122-183: one iteration of the greedy loop
GreedyIteration ==
    /\ pc = "greedy"
    /\ remaining # {}
    /\ \E step \in {GreedyStep(grid, remaining, run_starts, run_ends, cands, chosen,
                               options.max_intervals)} :
          /\ last_pick' = step.best
          /\ chosen' = step.chosen
          /\ remaining' = step.remaining
          /\ IF step.raised # ""
             THEN /\ pc' = "done"
                  /\ outcome' = [status |-> "raised", error |-> step.raised, rows |-> <<>>]
             ELSE /\ pc' = IF step.remaining = {} THEN "render" ELSE "greedy"
                  /\ UNCHANGED outcome
    /\ UNCHANGED <<intervals, options, builder, grid, run_starts, run_ends, cands, rows,
                   returned>>

\* optimize.py lines 185-226: the chosen rules are rendered, sorted and padded
RenderRows ==
    /\ pc = "render"
    /\ rows' = RenderChosen(chosen, options.max_intervals)
    /\ builder' = "optimized"
    /\ pc' = "verify"
    /\ UNCHANGED <<intervals, options, OptimizerVars, outcome, returned>>

\* lines 169-173: the rows are verified against the required grid and returned
VerifyAndReturn ==
    /\ pc = "verify"
    /\ LET required == build_required_grid(intervals)
       IN IF verify_rows_match_required(rows, required)
          THEN outcome' = [status |-> "raised", error |-> "mismatch", rows |-> <<>>]
          ELSE outcome' = [status |-> "returned", error |-> "", rows |-> rows]
    /\ pc' = "done"
    /\ UNCHANGED <<intervals, options, builder, OptimizerVars, rows, returned>>

Next ==
    \/ CallNaive
    \/ EnterOptimized
    \/ GreedyIteration
    \/ RenderRows
    \/ VerifyAndReturn

Spec == Init /\ [][Next]_vars

-----------------------------------------------------------------------------
(* The verifier on its own: verify_rows_match_required applied to row      *)
(* lists that need not come from a builder.  The rows are renderings of at *)
(* most MaxRules rules out of RuleChoices; the required grid is that of an *)
(* interval list with at most one interval.                                *)

MaxRules == 2

RuleChoices ==
    {<<w[1], w[2], ds>> :
        w \in {<<480, 720>>, <<480, 721>>, <<0, 1440>>, <<720, 1440>>, <<480, 1440>>},
        ds \in {{0}, {0, 1}}}

\* the rules of a set, one after the other
RECURSIVE RuleList(_)
RuleList(S) ==
    IF S = {} THEN <<>>
    ELSE LET r == CHOOSE x \in S : TRUE
         IN <<r>> \o RuleList(S \ {r})

RowListChoices ==
    {RenderChosen(RuleList(S), MaxBudget) :
        S \in {T \in SUBSET RuleChoices : Cardinality(T) <= MaxRules}}

VerifyInit ==
    /\ intervals \in {ivs \in InputLists : Len(ivs) <= 1}
    /\ options = [optimize |-> FALSE, max_intervals |-> MaxBudget, day_names |-> DAY_NAMES]
    /\ rows \in RowListChoices
    /\ pc = "verify"
    /\ builder = "caller"
    /\ grid = EmptyGrid
    /\ run_starts = [d \in Days |-> {}]
    /\ run_ends = [d \in Days |-> {}]
    /\ cands = <<>>
    /\ remaining = {}
    /\ chosen = <<>>
    /\ last_pick = NoBest
    /\ outcome = Running
    /\ returned = <<>>

VerifyNext == VerifyAndReturn

SpecVerify == VerifyInit /\ [][VerifyNext]_vars

-----------------------------------------------------------------------------
(* The functions of intervals.py and the grid builder called directly, on  *)
(* lists of at most MaxParsed intervals out of ParsedChoices.  Every        *)
(* interval of ParsedChoices has its end after its start.                   *)

MaxParsed == 2

\* Sunday 10:00-11:00, 11:00-12:00, 10:30-11:30, 10:00-12:00, Sunday 11:30 to
\* midnight, Saturday 23:00 to Sunday 02:00, Sunday 11:00 to Tuesday 01:00
ParsedChoices ==
    {Interval(600, 660, <<"a">>), Interval(660, 720, <<"b">>),
     Interval(630, 690, <<"a">>), Interval(600, 720, <<"c">>),
     Interval(690, 1440, <<"d">>), Interval(10020, 10200, <<"e">>),
     Interval(660, 2940, <<"f">>)}

ParsedLists == UNION {[1..n -> ParsedChoices] : n \in 0..MaxParsed}

PadChoices == {0, 15}

Call(name, args, value) == [call |-> name, args |-> args, value |-> value]

IntervalsInit ==
    /\ intervals \in ParsedLists
    /\ options = [optimize |-> FALSE, max_intervals |-> MaxBudget, day_names |-> DAY_NAMES]
    /\ pc = "parsed"
    /\ builder = "none"
    /\ grid = EmptyGrid
    /\ run_starts = [d \in Days |-> {}]
    /\ run_ends = [d \in Days |-> {}]
    /\ cands = <<>>
    /\ remaining = {}
    /\ chosen = <<>>
    /\ last_pick = NoBest
    /\ rows = <<>>
    /\ outcome = Running
    /\ returned = <<>>

CallMerge ==
    /\ pc = "parsed"
    /\ \E t \in BOOLEAN :
          returned' = Call("merge_intervals", <<intervals, t>>, merge_intervals(intervals, t))
    /\ pc' = "called"
    /\ UNCHANGED <<intervals, options, builder, OptimizerVars, rows, outcome>>

CallPadding ==
    /\ pc = "parsed"
    /\ \E i \in 1..Len(intervals), before_min \in PadChoices, after_min \in PadChoices :
          returned' = Call("apply_padding", <<intervals[i], before_min, after_min>>,
                           apply_padding(intervals[i], before_min, after_min))
    /\ pc' = "called"
    /\ UNCHANGED <<intervals, options, builder, OptimizerVars, rows, outcome>>

CallSplit ==
    /\ pc = "parsed"
    /\ \E i \in 1..Len(intervals) :
          returned' = Call("split_interval_by_day", <<intervals[i]>>,
                           split_interval_by_day(intervals[i]))
    /\ pc' = "called"
    /\ UNCHANGED <<intervals, options, builder, OptimizerVars, rows, outcome>>

CallBuildGrid ==
    /\ pc = "parsed"
    /\ returned' = Call("build_required_grid", <<intervals>>, build_required_grid(intervals))
    /\ pc' = "called"
    /\ UNCHANGED <<intervals, options, builder, OptimizerVars, rows, outcome>>

IntervalsNext ==
    \/ CallMerge
    \/ CallPadding
    \/ CallSplit
    \/ CallBuildGrid

SpecIntervals == IntervalsInit /\ [][IntervalsNext]_vars

-----------------------------------------------------------------------------
(* service.py: prepare_intervals, from the parsed intervals on *)

StartLess(a, b) == a.start < b.start

\* line 139: sorted(intervals, key=lambda iv: iv.start)
SortByStart(ivs) == StableSort(ivs, {p \in Pairs(ivs) : StartLess(ivs[p[1]], ivs[p[2]])})

\* lines 125-129: the window defaults to one day around the intervals
DefaultWindow(ivs) ==
    IF ivs = <<>> THEN <<<<>>, <<>>>>
    ELSE LET min_start == CHOOSE x \in {ivs[i].start : i \in DOMAIN ivs} :
                              \A i \in DOMAIN ivs : x <= ivs[i].start
             max_end   == CHOOSE x \in {ivs[i].end : i \in DOMAIN ivs} :
                              \A i \in DOMAIN ivs : x >= ivs[i].end
         IN <<<<min_start - MinutesPerTimedeltaDay>>, <<max_end + MinutesPerTimedeltaDay>>>>

\* line 134: the positional arguments of the call of apply_padding
PaddingCallArgs(iv, opts, window) ==
    <<iv, opts.pad_before_min, opts.pad_after_min, window[1], window[2]>>

\* a call of apply_padding with positional arguments: the function has three
\* parameters, and Python raises TypeError for any other number of arguments
CallApplyPadding(args) ==
    IF Len(args) = 3
    THEN Returned(<<apply_padding(args[1], args[2], args[3])>>)
    ELSE Raised("TypeError")

\* lines 133-135: the list comprehension, which ends at the first exception
RECURSIVE PadEach(_, _, _)
PadEach(ivs, opts, window) ==
    IF ivs = <<>> THEN Returned(<<>>)
    ELSE LET r == CallApplyPadding(PaddingCallArgs(Head(ivs), opts, window))
         IN IF r.raised # "" THEN r
            ELSE LET rest == PadEach(Tail(ivs), opts, window)
                 IN IF rest.raised # "" THEN rest ELSE Returned(r.rows \o rest.rows)

\* lines 131-139, on the merged intervals
PadMergeSort(merged, opts) ==
    IF opts.pad_before_min # 0 \/ opts.pad_after_min # 0
    THEN LET padded == PadEach(merged, opts, DefaultWindow(merged))
         IN IF padded.raised # "" THEN padded
            ELSE Returned(SortByStart(merge_intervals(padded.rows, MERGE_TOUCHING)))
    ELSE Returned(SortByStart(merged))

\* lines 122-139: what prepare_intervals does with the parsed intervals
prepare_intervals(parsed, opts) ==
    PadMergeSort(merge_intervals(parsed, MERGE_TOUCHING), opts)

-----------------------------------------------------------------------------
(* The service from the parsed events to the rows: prepare_intervals, then *)
(* build_unlock_rows, on the event lists of the tests, on lists with an    *)
(* interval whose end is not after its start, and on two staggered windows. *)

At(d, hh, mm) == d * MinutesPerDay + hh * MinutesPerHour + mm

\* the events of one test line, one per day of first..last
RECURSIVE Evts(_, _, _, _, _)
Evts(first, last, title, s, e) ==
    IF first > last THEN <<>>
    ELSE <<Interval(first * MinutesPerDay + s, first * MinutesPerDay + e, <<title>>)>>
         \o Evts(first + 1, last, title, s, e)

BusyWeek ==
    Evts(0, 0, "Sunday Morning Service", At(0, 7, 15), At(0, 12, 0))
    \o Evts(1, 5, "Head Start", At(0, 8, 0), At(0, 12, 45))
    \o Evts(1, 5, "Head Start Pickup", At(0, 11, 30), At(0, 12, 45))
    \o Evts(1, 5, "Parent Pick-up", At(0, 13, 30), At(0, 14, 45))
    \o Evts(2, 2, "Coffee Break", At(0, 8, 0), At(0, 11, 30))
    \o Evts(1, 1, "Celebrate Recovery", At(0, 16, 45), At(0, 20, 5))
    \o Evts(2, 2, "Council", At(0, 18, 50), At(0, 19, 20))
    \o Evts(2, 2, "Congregational Mtg", At(0, 19, 0), At(0, 21, 0))

OptimizeOpportunity ==
    Evts(1, 1, "Block1", At(0, 8, 0), At(0, 12, 0))
    \o Evts(2, 2, "Block2", At(0, 10, 0), At(0, 14, 0))
    \o Evts(3, 3, "Block3", At(0, 8, 0), At(0, 14, 0))

\* Monday 08:00-10:00 and an interval from Monday 12:00 back to Monday 11:00
WithReversed ==
    <<Interval(At(1, 8, 0), At(1, 10, 0), <<"Block1">>),
      Interval(At(1, 12, 0), At(1, 11, 0), <<"Reversed">>)>>

\* Monday 08:00-10:00 and an interval that starts and ends on Tuesday 09:00
WithZeroLength ==
    <<Interval(At(1, 8, 0), At(1, 10, 0), <<"Block1">>),
      Interval(At(2, 9, 0), At(2, 9, 0), <<"Empty">>)>>

\* Monday 00:00-12:00 and Tuesday 05:00-15:00: two windows that overlap in
\* their clock times without one containing the other
Staggered ==
    Evts(1, 1, "Early", At(0, 0, 0), At(0, 12, 0))
    \o Evts(2, 2, "Late", At(0, 5, 0), At(0, 15, 0))

ParsedScenarios ==
    {<<>>, OptimizeOpportunity, BusyWeek, WithReversed, WithZeroLength, Staggered}

ServiceInit ==
    /\ intervals \in ParsedScenarios
    /\ options \in [pad_before_min : PadChoices, pad_after_min : PadChoices,
                    optimize : BOOLEAN, max_intervals : 0..MAX_INTERVALS,
                    day_names : {DAY_NAMES}]
    /\ pc = "parsed"
    /\ builder = "none"
    /\ grid = EmptyGrid
    /\ run_starts = [d \in Days |-> {}]
    /\ run_ends = [d \in Days |-> {}]
    /\ cands = <<>>
    /\ remaining = {}
    /\ chosen = <<>>
    /\ last_pick = NoBest
    /\ rows = <<>>
    /\ outcome = Running
    /\ returned = <<>>

\* prepare_intervals is called on the parsed intervals; its result is handed
\* to build_unlock_rows
PrepareIntervals ==
    /\ pc = "parsed"
    /\ \E res \in {prepare_intervals(intervals, options)} :
          /\ returned' = Call("prepare_intervals", <<intervals, options>>, res)
          /\ IF res.raised # ""
             THEN /\ pc' = "done"
                  /\ outcome' = [status |-> "raised", error |-> res.raised, rows |-> <<>>]
                  /\ UNCHANGED intervals
             ELSE /\ pc' = "entry"
                  /\ intervals' = res.rows
                  /\ UNCHANGED outcome
    /\ UNCHANGED <<options, builder, OptimizerVars, rows>>

ServiceNext ==
    \/ PrepareIntervals
    \/ CallNaive
    \/ EnterOptimized
    \/ GreedyIteration
    \/ RenderRows
    \/ VerifyAndReturn

SpecService == ServiceInit /\ [][ServiceNext]_vars

-----------------------------------------------------------------------------
(* Properties *)

\* the required grid of the interval list handed in
Required == build_required_grid(intervals)

\* row r unlocks minute m of day d: its day flag is set and m lies in
\* [start, end), where an end rendered "0000" means the end of the day unless
\* the start is rendered "0000" too
Unlocks(r, d, m) ==
    LET flag  == <<r.Sun, r.Mon, r.Tue, r.Wed, r.Thu, r.Fri, r.Sat>>[d + 1]
        start == (r.Start[1] * 10 + r.Start[2]) * 60 + r.Start[3] * 10 + r.Start[4]
        end0  == (r.End[1] * 10 + r.End[2]) * 60 + r.End[3] * 10 + r.End[4]
        end   == IF r.End = <<0, 0, 0, 0>> /\ r.Start # <<0, 0, 0, 0>> THEN 1440 ELSE end0
    IN flag = 1 /\ start <= m /\ m < end

\* the OR of the rows, cell by cell
OrGrid(rs) == [d \in Days |-> [m \in Minutes |-> \E i \in 1..Len(rs) : Unlocks(rs[i], d, m)]]

IsZeroRow(r) ==
    /\ r.Start = <<0, 0, 0, 0>> /\ r.End = <<0, 0, 0, 0>>
    /\ r.Sun = 0 /\ r.Mon = 0 /\ r.Tue = 0 /\ r.Wed = 0 /\ r.Thu = 0 /\ r.Fri = 0 /\ r.Sat = 0
    /\ r.Holidays = 0

\* the distinct clock windows of the day segments, without the empty ones
\* (start and end render the same)
NaiveWindows ==
    LET segs == AllSegments(intervals)
    IN {k \in {<<to_hhmm(segs[i].start), to_hhmm(segs[i].end)>> : i \in 1..Len(segs)} :
           k[1] # k[2]}

\* C1: every rule chosen so far by the greedy loop lies inside the required
\* grid: each minute of [s, e) is required on each of the rule's days.
C1_OptimizerNeverOverOpens ==
    \A i \in 1..Len(chosen) :
        \A d \in chosen[i][3] :
            \A m \in chosen[i][1] .. (chosen[i][2] - 1) : m < 1440 /\ grid[d][m]

C1_Witness ==
    /\ Len(chosen) >= 2
    /\ \E i \in 1..Len(chosen) : Cardinality(chosen[i][3]) >= 2

\* C10: when the greedy loop has ended without an error, the cells of the
\* chosen rules, days x [s, e), are exactly the required cells of the grid.
C10_ExactCoverAtLoopEnd ==
    pc = "render" =>
        UNION {chosen[i][3] \X (chosen[i][1] .. (chosen[i][2] - 1)) : i \in 1..Len(chosen)}
          = {c \in Days \X Minutes : grid[c[1]][c[2]]}

C10_Witness ==
    /\ pc = "render"
    /\ Len(chosen) >= 2
    /\ \E i \in 1..Len(chosen) : Cardinality(chosen[i][3]) >= 2

\* C7: the optimizer returns rows only with the uncovered set empty and at
\* most max_intervals rules chosen; in every state with more rules chosen than
\* max_intervals the call has ended with a capacity error and without rows.
C7_OptimizerCapacity ==
    /\ builder = "optimized" =>
          remaining = {} /\ Len(chosen) <= options.max_intervals
    /\ Len(chosen) > options.max_intervals =>
          /\ pc = "done"
          /\ outcome = [status |-> "raised", error |-> "capacity", rows |-> <<>>]
          /\ builder # "optimized"
          /\ Len(chosen) = options.max_intervals + 1

C7_Witness ==
    /\ options.optimize
    /\ options.max_intervals = 0
    /\ Len(chosen) = 1
    /\ outcome.status = "raised" /\ outcome.error = "capacity"

\* the number of rows the builder that produced `rows` had to fill
UsedRows == IF builder = "naive" THEN Cardinality(NaiveWindows) ELSE Len(chosen)

\* C8: the rows a builder returned are exactly max_intervals rows, numbered
\* 1, 2, ... in list order, and every row after the used ones is all-zero
\* (Start = End = "0000", no day flag, Holidays = 0).
C8_FixedSizeTable ==
    builder \in {"naive", "optimized"} =>
        /\ Len(rows) = options.max_intervals
        /\ \A i \in 1..Len(rows) : rows[i].Interval = i /\ rows[i].Holidays = 0
        /\ UsedRows <= Len(rows)
        /\ \A i \in (UsedRows + 1) .. Len(rows) : IsZeroRow(rows[i])

C8_Witness ==
    /\ builder \in {"naive", "optimized"}
    /\ UsedRows = 1
    /\ Len(rows) = 2
    /\ ~IsZeroRow(rows[1]) /\ IsZeroRow(rows[2])

\* C6: the naive builder ends with a capacity error, and without rows, exactly
\* when the distinct non-empty clock windows of the day segments are more than
\* max_intervals; otherwise the used rows carry exactly those windows.
C6_NaiveCapacity ==
    (~options.optimize /\ pc # "entry") =>
        IF Cardinality(NaiveWindows) > options.max_intervals
        THEN /\ pc = "done"
             /\ outcome = [status |-> "raised", error |-> "capacity", rows |-> <<>>]
             /\ rows = <<>>
        ELSE /\ builder = "naive"
             /\ outcome.error # "capacity"
             /\ Len(rows) >= Cardinality(NaiveWindows)
             /\ {<<rows[i].Start, rows[i].End>> : i \in 1..Cardinality(NaiveWindows)}
                  = NaiveWindows

C6_Witness ==
    /\ ~options.optimize
    /\ options.max_intervals = 2
    /\ Cardinality(NaiveWindows) = 3
    /\ outcome.status = "raised" /\ outcome.error = "capacity"

\* C4: when build_unlock_rows returns, the OR of the returned rows equals the
\* required grid of the intervals in every cell; when it ends with an error
\* it returns no rows.
C4_ReturnsOnlyVerifiedRows ==
    /\ outcome.status = "returned" =>
          /\ outcome.rows = rows
          /\ OrGrid(outcome.rows) = Required
    /\ outcome.status = "raised" => outcome.rows = <<>>
    /\ pc = "done" <=> outcome.status \in {"returned", "raised"}

C4_Witness ==
    /\ outcome.status = "returned"
    /\ builder = "optimized"
    /\ Len(chosen) = 2

\* C9: verify_rows_match_required raises exactly when the OR of the rows
\* differs from the required grid in some cell, be the cell over-open
\* (simulated, not required) or under-open (required, not simulated).
C9_VerifierRaisesIffDifferent ==
    pc = "done" =>
        LET sim == OrGrid(rows)
            req == Required
        IN (outcome.status = "raised" /\ outcome.error = "mismatch")
             <=> (\E d \in Days : \E m \in Minutes : sim[d][m] # req[d][m])

\* a row set that opens one minute too many, and nothing too few, is rejected
C9_Witness ==
    /\ pc = "done"
    /\ outcome.status = "raised"
    /\ LET sim == OrGrid(rows)
           req == Required
       IN /\ Cardinality({c \in Days \X Minutes : sim[c[1]][c[2]] /\ ~req[c[1]][c[2]]}) = 1
          /\ \A d \in Days : \A m \in Minutes : req[d][m] => sim[d][m]

\* C2: the rows the optimizer returns reproduce the required grid under the
\* verifier's simulation, and the verifier accepts them.
C2_OptimizedRowsReproduceGrid ==
    (pc = "verify" /\ builder = "optimized") =>
        /\ SimulatedGrid(rows) = Required
        /\ ~verify_rows_match_required(rows, Required)

\* C3: the rows the naive builder returns reproduce the required grid under
\* the verifier's simulation, and the verifier accepts them.
C3_NaiveRowsReproduceGrid ==
    (pc = "verify" /\ builder = "naive") =>
        /\ SimulatedGrid(rows) = Required
        /\ ~verify_rows_match_required(rows, Required)

\* C5: called with optimize = false on intervals that need more distinct
\* windows than max_intervals but that the optimizer fits within the budget,
\* build_unlock_rows does not end with a capacity error.
C5_FallbackToOptimizer ==
    ( /\ pc = "done"
      /\ ~options.optimize
      /\ Cardinality(NaiveWindows) > options.max_intervals
      /\ build_weekly_template_optimized(intervals, options.max_intervals).raised = "" )
    => ~(outcome.status = "raised" /\ outcome.error = "capacity")


-----------------------------------------------------------------------------
(* Claims about intervals.py and the grid builder, under SpecIntervals *)

\* the minutes of the week that the intervals of a list cover: minute m of
\* day-of-week d (Sunday = 0) is covered when some instant t of some interval
\* [start, end) falls on it
CoveredCells(ivs) ==
    {<<date(t) % DaysPerWeek, t % MinutesPerDay>> :
        t \in UNION {ivs[i].start .. (ivs[i].end - 1) : i \in DOMAIN ivs}}

\* C11: a cell of build_required_grid(I) is true exactly when an interval of
\* I covers that minute of that day of the week (a segment that ends at the
\* next midnight covers minute 1439), and every cell true in the grid of a
\* prefix of the list is true in the grid of the whole list
C11_GridCorrectAndMonotone ==
    (pc = "called" /\ returned.call = "build_required_grid") =>
        /\ RequiredCells(returned.value) = CoveredCells(intervals)
        /\ \A k \in 0..Len(intervals) :
              RequiredCells(build_required_grid(SubSeq(intervals, 1, k)))
                  \subseteq RequiredCells(returned.value)

C11_Witness ==
    /\ pc = "called"
    /\ returned.call = "build_required_grid"
    /\ Len(intervals) = 2
    /\ \E i \in 1..2 : intervals[i].end = MinutesPerDay
    /\ returned.value[0][1439]
    /\ returned.value[6][1380]
    /\ ~returned.value[1][0]

\* C12: merging the result of merge_intervals again, in the same mode, gives
\* the same list: the same intervals in the same order, each with the same
\* sources in the same order
C12_MergeIdempotent ==
    (pc = "called" /\ returned.call = "merge_intervals") =>
        merge_intervals(returned.value, returned.args[2]) = returned.value

C12_Witness ==
    /\ pc = "called"
    /\ returned.call = "merge_intervals"
    /\ Len(intervals) = 2
    /\ Len(returned.value) = 1
    /\ Len(returned.value[1].sources) = 2
    /\ returned.value[1].end > intervals[1].end

\* C13: of two intervals, when the second starts exactly at the end of the
\* first, merge_intervals returns the one interval from the start of the first
\* to the end of the second if merge_touching is true and the two intervals
\* unchanged if it is false; when the second starts inside the first, it
\* returns one interval in both modes
C13_TouchingRule ==
    (pc = "called" /\ returned.call = "merge_intervals" /\ Len(intervals) = 2) =>
        \A i, j \in 1..2 :
            LET a == intervals[i]
                b == intervals[j]
            IN /\ (i # j /\ b.start = a.end) =>
                     IF returned.args[2]
                     THEN returned.value
                            = <<Interval(a.start, b.end, Dedup(a.sources \o b.sources))>>
                     ELSE returned.value = <<a, b>>
               /\ (i # j /\ a.start <= b.start /\ b.start < a.end) =>
                     /\ Len(returned.value) = 1
                     /\ returned.value[1].start = a.start
                     /\ returned.value[1].end = Max(a.end, b.end)

C13_Witness ==
    /\ pc = "called"
    /\ returned.call = "merge_intervals"
    /\ returned.args[2]
    /\ intervals = <<Interval(660, 720, <<"b">>), Interval(600, 660, <<"a">>)>>
    /\ returned.value = <<Interval(600, 720, <<"a", "b">>)>>

ReturnedIntervals ==
    IF returned.call = "apply_padding" THEN {returned.value}
    ELSE IF returned.call \in {"merge_intervals", "split_interval_by_day"}
    THEN Range(returned.value)
    ELSE {}

\* C15: every interval that merge_intervals, apply_padding or
\* split_interval_by_day returns, for intervals with end > start and padding
\* that is not negative, has its end after its start
C15_EndAfterStart ==
    pc = "called" => \A iv \in ReturnedIntervals : iv.end > iv.start

-----------------------------------------------------------------------------
(* Claims about the service, under SpecService and Spec *)

\* the merged intervals, each with its start moved earlier and its end later
Padded(merged, before_min, after_min) ==
    [i \in 1..Len(merged) |-> apply_padding(merged[i], before_min, after_min)]

\* C16: with pad_before_min or pad_after_min not zero, prepare_intervals does
\* not fail, and returns the merge of the padded merged intervals, sorted by
\* start
C16_PaddingThroughService ==
    (pc # "parsed" /\ (options.pad_before_min # 0 \/ options.pad_after_min # 0)) =>
        /\ returned.value.raised = ""
        /\ returned.value.rows =
              SortByStart(merge_intervals(
                  Padded(merge_intervals(returned.args[1], MERGE_TOUCHING),
                         options.pad_before_min, options.pad_after_min),
                  MERGE_TOUCHING))

\* the rows the tests count as used: not both Start and End "0000"
used(rs) == {i \in 1..Len(rs) : ~(rs[i].Start = <<0, 0, 0, 0>> /\ rs[i].End = <<0, 0, 0, 0>>)}

\* a run of the service on the parsed list `parsed` without padding and with
\* the budget MAX_INTERVALS has ended
Ended(parsed) ==
    /\ pc = "done"
    /\ returned.args[1] = parsed
    /\ options.pad_before_min = 0 /\ options.pad_after_min = 0
    /\ options.max_intervals = MAX_INTERVALS

\* C17: for the events Mon 08:00-12:00, Tue 10:00-14:00, Wed 08:00-14:00 and
\* the budget 8, build_unlock_rows returns rows that the verifier accepted,
\* of which 3 are used without the optimizer and 2 with it
C17_OptimizeOpportunity ==
    Ended(OptimizeOpportunity) =>
        /\ outcome.status = "returned"
        /\ Cardinality(used(outcome.rows)) = IF options.optimize THEN 2 ELSE 3

C17_Witness ==
    /\ Ended(OptimizeOpportunity)
    /\ options.optimize
    /\ outcome.status = "returned"
    /\ outcome.rows[1].Start = <<0, 8, 0, 0>> /\ outcome.rows[1].End = <<1, 2, 0, 0>>
    /\ outcome.rows[1].Mon = 1 /\ outcome.rows[1].Wed = 1
    /\ outcome.rows[2].Start = <<1, 0, 0, 0>> /\ outcome.rows[2].End = <<1, 4, 0, 0>>
    /\ outcome.rows[2].Tue = 1 /\ outcome.rows[2].Wed = 1

\* C18: for the busy week and the budget 8, the optimizer selects 5 rules;
\* the rows it returns are 5 used rows and 3 all-zero rows, and the verifier
\* accepts them
C18_BusyWeek ==
    (Ended(BusyWeek) /\ options.optimize) =>
        /\ outcome.status = "returned"
        /\ Len(chosen) = 5
        /\ Cardinality(used(outcome.rows)) = 5
        /\ Cardinality({i \in 1..Len(outcome.rows) : IsZeroRow(outcome.rows[i])}) = 3

C18_Witness ==
    /\ Ended(BusyWeek)
    /\ options.optimize
    /\ Len(intervals) = 13
    /\ outcome.status = "returned"
    /\ outcome.rows[2].Start = <<0, 8, 0, 0>> /\ outcome.rows[2].End = <<1, 2, 4, 5>>
    /\ outcome.rows[2].Mon = 1 /\ outcome.rows[2].Fri = 1 /\ outcome.rows[2].Sun = 0
    /\ IsZeroRow(outcome.rows[6])

\* C19: in the rows a builder returned, the rows that are not unused rows are
\* in ascending order of (Start, End), and every row after an unused row
\* (Start = End = "0000", no days) is an unused row
C19_RowOrder ==
    builder \in {"naive", "optimized"} =>
        \A i, j \in 1..Len(rows) :
            i < j =>
                /\ (~IsZeroRow(rows[i]) /\ ~IsZeroRow(rows[j]))
                       => ~KeyLess(RowKey(rows[j]), RowKey(rows[i]))
                /\ IsZeroRow(rows[i]) => IsZeroRow(rows[j])

C19_Witness ==
    /\ builder = "optimized"
    /\ Len(rows) = 2
    /\ ~IsZeroRow(rows[1]) /\ ~IsZeroRow(rows[2])
    /\ KeyLess(RowKey(rows[1]), RowKey(rows[2]))
    /\ chosen[1][1] > chosen[2][1]

\* C20: when an interval whose end is not after its start is handed to
\* build_unlock_rows, the call ends at once with a validation error: no
\* builder runs on it and no rows are returned
C20_InvalidIntervalRejected ==
    (/\ pc \notin {"parsed", "entry"}
     /\ returned.value.raised = ""
     /\ \E i \in 1..Len(intervals) : intervals[i].end <= intervals[i].start)
        => (pc = "done" /\ outcome.status = "raised" /\ outcome.error = "ValueError")

\* C21: the greedy loop never ends with "couldn't find any safe interval":
\* whenever it is about to run an iteration with cells still uncovered, some
\* candidate window lies inside the required grid on some day and holds an
\* uncovered cell of that day.
C21_SafeIntervalExists ==
    /\ outcome.error # "no safe interval"
    /\ (pc = "greedy" /\ remaining # {}) =>
          \E i \in 1..Len(cands) : \E d \in Days :
              /\ \A m \in cands[i][1] .. (cands[i][2] - 1) : grid[d][m]
              /\ \E m \in cands[i][1] .. (cands[i][2] - 1) : <<d, m>> \in remaining

C21_Witness ==
    /\ pc = "greedy"
    /\ remaining # {}
    /\ Len(chosen) >= 1

\* C22: a row that the verifier leaves out of its simulation has no day flag
\* set: a row whose Start and End both render "0000" and that has the flag of
\* day d set is simulated, so that it unlocks some minute of day d.
C22_PlaceholderRule ==
    pc = "done" =>
        \A i \in 1..Len(rows) : \A d \in Days :
            (/\ rows[i].Start = <<0, 0, 0, 0>>
             /\ rows[i].End = <<0, 0, 0, 0>>
             /\ day_enabled(rows[i], d))
                => \E m \in Minutes : SimulateRow(EmptyGrid, rows[i])[d][m]

\* an iteration of the greedy loop has just ended
AfterIteration ==
    /\ last_pick.best_s # <<>>
    /\ \/ pc \in {"greedy", "render"}
       \/ pc = "done" /\ outcome.error = "capacity"

\* the uncovered cells at the start of the iteration that has just ended
UncoveredBefore == remaining \cup last_pick.best_cover

\* the score of the candidate (s, e), evaluated as ev
ScoreOf(ev, s, e) == <<ev.alignment, Cardinality(ev.cover), e - s, -s>>

\* the candidate cand as the iteration that has just ended evaluated it
EvalBefore(cand) ==
    EvalCandidate(grid, UncoveredBefore, run_starts, run_ends, cand[1], cand[2])

PickedWindow == <<last_pick.best_s[1], last_pick.best_e[1]>>

\* C23: the candidate selected by an iteration of the greedy loop is a
\* covering candidate, and no covering candidate of that iteration has a
\* greater tuple (alignment, newly covered cells, e - s, -s) in lexicographic
\* order.
C23_GreatestScoreSelected ==
    AfterIteration =>
        /\ \E i \in 1..Len(cands) : cands[i] = PickedWindow
        /\ last_pick.best_cover = EvalBefore(PickedWindow).cover
        /\ last_pick.best_cover # {}
        /\ \E picked \in {ScoreOf(EvalBefore(PickedWindow), PickedWindow[1], PickedWindow[2])} :
              \A i \in 1..Len(cands) : \E ev \in {EvalBefore(cands[i])} :
                  ev.cover # {} =>
                      ~TupleLess(picked, ScoreOf(ev, cands[i][1], cands[i][2]))

\* an iteration in which a covering candidate with more newly covered cells
\* lost to the selected one on alignment
C23_Witness ==
    /\ AfterIteration
    /\ \E i \in 1..Len(cands) : \E ev \in {EvalBefore(cands[i])} :
          /\ Cardinality(ev.cover) > Cardinality(last_pick.best_cover)
          /\ ev.alignment < last_pick.best_alignment

\* C24, as stated: the candidate selected by an iteration of the greedy loop
\* covers at least as many still-uncovered cells as every other safe candidate.
C24_MostCellsSelected ==
    AfterIteration =>
        \A i \in 1..Len(cands) :
            Cardinality(EvalBefore(cands[i]).cover) <= Cardinality(last_pick.best_cover)

\* C24: the candidate selected by an iteration of the greedy loop covers at
\* least as many still-uncovered cells as every other covering candidate whose
\* alignment is not less than its own.
C24_MostCellsAmongBestAligned ==
    AfterIteration =>
        \A i \in 1..Len(cands) : \E ev \in {EvalBefore(cands[i])} :
            (ev.cover # {} /\ ev.alignment >= last_pick.best_alignment)
                => Cardinality(ev.cover) <= Cardinality(last_pick.best_cover)

\* an iteration in which a covering candidate with the alignment of the
\* selected one lost to it on the number of newly covered cells
C24_Witness ==
    /\ AfterIteration
    /\ \E i \in 1..Len(cands) : \E ev \in {EvalBefore(cands[i])} :
          /\ ev.cover # {}
          /\ ev.alignment = last_pick.best_alignment
          /\ Cardinality(ev.cover) < Cardinality(last_pick.best_cover)

\* the days on which the whole window [s, e) is required
SafeDays(s, e) == {d \in Days : \A m \in s .. (e - 1) : grid[d][m]}

\* C25: the rule appended by an iteration of the greedy loop has the selected
\* window, and its days are exactly the days on which the whole window is
\* required and on which it held a cell that was uncovered before the
\* iteration.
C25_RuleDaysAreContributingDays ==
    AfterIteration =>
        /\ <<chosen[Len(chosen)][1], chosen[Len(chosen)][2]>> = PickedWindow
        /\ chosen[Len(chosen)][3]
             = {d \in SafeDays(PickedWindow[1], PickedWindow[2]) :
                   \E m \in PickedWindow[1] .. (PickedWindow[2] - 1) :
                       <<d, m>> \in UncoveredBefore}

\* an iteration whose window is fully required on a day that it adds nothing
\* to, so that the day is not among the rule's days
C25_Witness ==
    /\ AfterIteration
    /\ chosen[Len(chosen)][3] # {}
    /\ SafeDays(PickedWindow[1], PickedWindow[2]) \ chosen[Len(chosen)][3] # {}

\* the minutes of day d at which a maximal run of required minutes starts
RunStartsOf(d) == {m \in Minutes : grid[d][m] /\ (m = 0 \/ ~grid[d][m - 1])}

\* the minutes just after the last minute of a maximal run of day d
RunEndsOf(d) == {m + 1 : m \in {x \in Minutes : grid[d][x] /\ (x = 1439 \/ ~grid[d][x + 1])}}

\* the optimizer has just computed its run sets and candidates
CandidatesComputed == pc = "greedy" /\ chosen = <<>>

\* C26: extract_boundaries_from_grid returns, in ascending order and without
\* repeats, 0, 1440 and the starts and ends of the maximal runs of every day;
\* candidate_intervals returns each pair (s, e) of boundaries with s < e once
\* and nothing else; _run_boundary_sets gives the starts and ends of the same
\* runs, day by day.
C26_BoundariesAndCandidates ==
    CandidatesComputed =>
        \E B \in {extract_boundaries_from_grid(grid)} :
            /\ Range(B) = {0, 1440} \cup UNION {RunStartsOf(d) \cup RunEndsOf(d) : d \in Days}
            /\ \A i \in 1..(Len(B) - 1) : B[i] < B[i + 1]
            /\ Range(cands) = {p \in Range(B) \X Range(B) : p[1] < p[2]}
            /\ Len(cands) = Cardinality(Range(cands))
            /\ \A d \in Days : run_starts[d] = RunStartsOf(d) /\ run_ends[d] = RunEndsOf(d)

\* two days with runs that start at different minutes, and four or more
\* boundaries
C26_Witness ==
    /\ CandidatesComputed
    /\ Len(cands) >= 6
    /\ \E d1, d2 \in Days :
          /\ run_starts[d1] # {} /\ run_starts[d2] # {}
          /\ run_starts[d1] # run_starts[d2]

\* the cells of the rules rs: days x [s, e)
CellsOf(rs) == UNION {rs[i][3] \X (rs[i][1] .. (rs[i][2] - 1)) : i \in 1..Len(rs)}

\* in the greedy loop, between two iterations or just after the last one
InGreedyLoop ==
    \/ pc \in {"greedy", "render"}
    \/ pc = "done" /\ outcome.error = "capacity"

\* C27: in every state of the greedy loop the uncovered set is the required
\* cells minus the cells of the rules chosen so far; every iteration raises, or
\* removes at least one cell from the uncovered set and appends exactly one
\* rule; the loop goes on only with cells left uncovered and at most
\* max_intervals rules chosen, so that iteration max_intervals + 1 is the last
\* one at the latest.
C27_LoopProgress ==
    /\ [](InGreedyLoop =>
            /\ remaining = RequiredCells(grid) \ CellsOf(chosen)
            /\ Len(chosen) <= options.max_intervals + 1
            /\ (pc = "greedy" => Len(chosen) <= options.max_intervals /\ remaining # {}))
    /\ [][GreedyIteration =>
            /\ Len(chosen') = Len(chosen) + 1
            /\ \/ outcome'.status = "raised"
               \/ /\ remaining' \subseteq remaining
                  /\ remaining' # remaining
                  /\ chosen' = Append(chosen, chosen'[Len(chosen')])
                  /\ pc' \in {"greedy", "render"}]_vars

\* the call has ended in iteration max_intervals + 1, after two or more
\* iterations, with cells left uncovered
C27_Witness ==
    /\ pc = "done"
    /\ outcome.error = "capacity"
    /\ Len(chosen) = options.max_intervals + 1
    /\ Len(chosen) >= 2
    /\ remaining # {}

\* the candidates as the iteration that is about to run evaluates them
EvaluatedNow ==
    [i \in 1..Len(cands) |->
        EvalCandidate(grid, remaining, run_starts, run_ends, cands[i][1], cands[i][2])]

\* candidate c, evaluated as evc, replaces candidate b, evaluated as evb, when
\* the loop meets it with b as its best so far
Replaces(c, evc, b, evb) ==
    KeepOrTake(Taken(b[1], b[2], evb), c[1], c[2], evc) = Taken(c[1], c[2], evc)

Reverse(seq) == [i \in 1..Len(seq) |-> seq[Len(seq) + 1 - i]]

\* C28: in every iteration of the greedy loop, of two distinct covering
\* candidates one replaces the other whichever the loop meets first, so that
\* their score tuples differ, and the loop selects the same candidate from the
\* candidate list and from the list reversed; the rows of a run of the
\* optimizer are those of another run on the same grid and budget.
C28_OptimizerDeterministic ==
    /\ pc = "greedy" =>
          /\ \E ev \in {EvaluatedNow} :
                \A i, j \in 1..Len(cands) :
                    (i < j /\ ev[i].cover # {} /\ ev[j].cover # {}) =>
                        /\ ScoreOf(ev[i], cands[i][1], cands[i][2])
                             # ScoreOf(ev[j], cands[j][1], cands[j][2])
                        /\ Replaces(cands[i], ev[i], cands[j], ev[j])
                             # Replaces(cands[j], ev[j], cands[i], ev[i])
          /\ CandidateLoop(NoBest, Reverse(cands), grid, remaining, run_starts, run_ends)
               = CandidateLoop(NoBest, cands, grid, remaining, run_starts, run_ends)
    /\ (pc = "verify" /\ builder = "optimized") =>
          rows = OptimizedFromRequired(grid, options.max_intervals).rows

\* an iteration with two covering candidates that agree on alignment and on
\* the number of newly covered cells
C28_Witness ==
    /\ pc = "greedy"
    /\ \E ev \in {EvaluatedNow} :
          \E i, j \in 1..Len(cands) :
              /\ i < j /\ ev[i].cover # {} /\ ev[j].cover # {}
              /\ ev[i].alignment = ev[j].alignment
              /\ Cardinality(ev[i].cover) = Cardinality(ev[j].cover)

\* the distinct (run-start, run-end) windows of the maximal runs of all days
RunWindows ==
    UNION {{w \in RunStartsOf(d) \X RunEndsOf(d) :
               w[1] < w[2] /\ \A m \in w[1] .. (w[2] - 1) : grid[d][m]} : d \in Days}

\* C29: the greedy loop ends with at most as many rules as there are distinct
\* (run-start, run-end) windows over all days, and the optimizer raises the
\* capacity error for budget N only on merged intervals for which the naive
\* builder raises it for budget N too.
C29_NeverWorseThanNaive ==
    /\ pc = "render" => Len(chosen) <= Cardinality(RunWindows)
    /\ (pc = "done" /\ outcome.error = "capacity") =>
          build_weekly_template(intervals, options.day_names,
                                options.max_intervals).raised # ""

\* C30: for a list of intervals that each end after they start, the required
\* grid of the list merge_intervals returns, with merge_touching true or
\* false, is the required grid of the list itself.
C30_MergePreservesGrid ==
    (/\ pc = "called"
     /\ returned.call = "merge_intervals"
     /\ \A i \in 1..Len(returned.args[1]) :
           returned.args[1][i].end > returned.args[1][i].start)
        => build_required_grid(returned.value) = build_required_grid(returned.args[1])

\* two overlapping intervals merged into one without merge_touching, the
\* second one reaching beyond the end of the first
C30_Witness ==
    /\ pc = "called"
    /\ returned.call = "merge_intervals"
    /\ ~returned.args[2]
    /\ Len(returned.args[1]) = 2
    /\ Len(returned.value) = 1
    /\ \E i \in 1..2 : returned.value[1].end > returned.args[1][i].end
    /\ \A i \in 1..2 : returned.args[1][i].end > returned.args[1][i].start

=============================================================================
